---- MODULE Spec2Model ----
(***************************************************************************)
(* Model of the Nonogram board of nonogrammeroo.py: the board and its      *)
(* regions (NonogramBoard.__init__), the attachment of run constraints     *)
(* (NonogramBoard.constraint_of) and the enumeration of all fillings       *)
(* (NonogramBoard.solve, with the constraint system it hands to the CP-SAT *)
(* solver and the CpSolutionPrinter callback that stores every solution),   *)
(* and the rendering of the board and of the stored solutions as text      *)
(* (NonogramBoard.print, NonogramBoard.print_solutions).                   *)
(***************************************************************************)
EXTENDS Integers, Sequences, FiniteSets, TLC

VARIABLES
    size,       \* NonogramBoard._size
    board,      \* NonogramBoard._board, the live grid of Cell values
    regions,    \* NonogramBoard._regions, a list of Region(region, constraint)
    solutions,  \* NonogramBoard._solutions, the list solve() stores
    raised,     \* the exception the last call raised, or "none"
    last,       \* the last call made on the board
    erred,      \* whether some call on the board has raised
    streak,     \* the number of solve() calls made in a row, ending with the last call
    supplied,   \* the run sequence last passed for every (direction, index)
    ncalls,     \* the number of calls made on the board since construction
    returned,   \* the value the last call returned ("None" for Python's None)
    solved      \* whether solve() has been called on the board

vars ==
    <<size, board, regions, solutions, raised, last, erred, streak, supplied,
      ncalls, returned, solved>>

(***************************************************************************)
(* Bounds of the exploration.                                              *)
(***************************************************************************)
\* Board sizes 0 .. MaxSize are constructed.
MaxSize == 2
\* Run lengths passed to constraint_of are 0 .. MaxRun.
MaxRun == 2
\* Run sequences passed to constraint_of have at most MaxRuns runs.
MaxRuns == 2
\* A client makes at most MaxCalls calls on a board.
MaxCalls == 4
\* A client that prints makes at most MaxPrintCalls calls on a board of size
\* 1 .. MaxPrintSize.
MaxPrintCalls == 4
MaxPrintSize == 2
\* Single lines are constrained on boards of size 1 .. MaxLine, with at most
\* MaxLineCalls calls of constraint_of.
MaxLine == 5
MaxLineCalls == 2
\* Whole puzzles are entered on boards of size 1 .. MaxPuzzleSize.
MaxPuzzleSize == 3
\* A whole puzzle asks for at most MaxInk filled cells in its rows, and at
\* most MaxInk in its columns.
MaxInk == 3

(***************************************************************************)
(* Helpers: Python's sum(), max(), range() and list operations.            *)
(***************************************************************************)
RECURSIVE Sum(_)
Sum(s) == IF s = <<>> THEN 0 ELSE Head(s) + Sum(Tail(s))

Max(a, b) == IF a >= b THEN a ELSE b

\* range( n )
Range(n) == 0 .. (n - 1)

\* The first n entries of s.
Prefix(s, n) == SubSeq(s, 1, n)

\* A list holding the elements of S, in the order they are found.
RECURSIVE SetToSeq(_)
SetToSeq(S) ==
    IF S = {} THEN <<>>
    ELSE LET x == CHOOSE y \in S : TRUE IN <<x>> \o SetToSeq(S \ {x})

\* All sequences over S of length at most n.
RECURSIVE SeqsUpTo(_, _)
SeqsUpTo(S, n) ==
    IF n = 0 THEN {<<>>}
    ELSE LET shorter == SeqsUpTo(S, n - 1)
         IN  shorter \cup {Append(s, x) : s \in shorter, x \in S}

(***************************************************************************)
(* Coordinates, Region                                                     *)
(***************************************************************************)
Coordinates(x, y) == [x |-> x, y |-> y]

\* Region.__init__: the indexes and an empty constraint.
Region(indexes) == [region |-> indexes, constraint |-> <<>>]

\* Region.is_row: every point has the x of the first point.
is_row(r) ==
    Cardinality({p \in 1 .. Len(r.region) : r.region[p].x = r.region[1].x})
        = Len(r.region)

\* Region.is_column: every point has the y of the first point.
is_column(r) ==
    Cardinality({p \in 1 .. Len(r.region) : r.region[p].y = r.region[1].y})
        = Len(r.region)

(***************************************************************************)
(* NonogramBoard.__init__                                                  *)
(***************************************************************************)
\* The regions appended by the loop: for i, first Coordinates( i, j ) for
\* all j, then Coordinates( j, i ) for all j.
InitRegions(n) ==
    [k \in 1 .. 2 * Max(n, 0) |->
        LET i == (k - 1) \div 2
        IN  IF k % 2 = 1
            THEN Region([j \in 1 .. n |-> Coordinates(i, j - 1)])
            ELSE Region([j \in 1 .. n |-> Coordinates(j - 1, i)])]

\* [ [ Cell() ] * size ] * size: every cell is empty (Cell._value = False).
InitBoard(n) == [r \in 1 .. n |-> [c \in 1 .. n |-> FALSE]]

Directions == {"row", "column"}

NoneSupplied(n) == [d \in Directions |-> [i \in Range(n) |-> <<>>]]

(***************************************************************************)
(* NonogramBoard.constraint_of                                             *)
(***************************************************************************)
\* index in range( 0, self.size )
IndexInRange(index) == index \in Range(size)

\* The positions in self.regions of the list "selected".
Selected(direction, index) ==
    IF direction = "row"
    THEN {k \in 1 .. Len(regions) :
            is_row(regions[k]) /\ regions[k].region[1].x = index}
    ELSE {k \in 1 .. Len(regions) :
            is_column(regions[k]) /\ regions[k].region[1].y = index}

\* selected[ 0 ]: the first region of self.regions that was selected.
Min(S) == CHOOSE k \in S : \A m \in S : k <= m

\* A variant that takes the index the way a Python list does: a negative
\* index counts from the end.
constraint_of_wrapping(direction, index, constraint) ==
    IF size <= 0 \/ index >= size \/ index < 0 - size
    THEN [raised |-> "IndexError", regions |-> regions]
    ELSE [raised |-> "none",
          regions |-> [regions EXCEPT
                         ![Min(Selected(direction, index % size))].constraint =
                             constraint]]

\* The outcome of constraint_of( direction, index, constraint ): the exception
\* raised and the regions after the call. Indexing the empty list "selected"
\* raises IndexError as the explicit range check does.
constraint_of(direction, index, constraint) ==
    IF ~IndexInRange(index) \/ Selected(direction, index) = {}
    THEN [raised |-> "IndexError", regions |-> regions]
    ELSE [raised |-> "none",
          regions |-> [regions EXCEPT
                         ![Min(Selected(direction, index))].constraint = constraint]]

(***************************************************************************)
(* NonogramBoard.solve: the constraint system of one region                *)
(***************************************************************************)
\* A variant that also takes the mandatory gaps between the sequences off.
space_max_less_gaps(n, c) == n - Sum(c) - (Len(c) - 1)

\* space_max = self.size - sum( region.constraint )
space_max(n, c) == n - Sum(c)

\* A variant that lets adjacent sequences touch (no mandatory space).
min_space_domain_zero(c, seq_index) == 0

\* min_space_domain = 0 if seq_index == len( region.constraint ) else 1
min_space_domain(c, seq_index) == IF seq_index = Len(c) THEN 0 ELSE 1

\* The domain of the space variable "space_j": NewIntVar( 0, space_max ) for
\* the leading space, NewIntVar( min_space_domain, max( 1, space_max ) ) for
\* the space that follows sequence j. A variable with lb > ub has no value.
SpaceDomain(n, c, j) ==
    IF j = 0
    THEN 0 .. space_max(n, c)
    ELSE min_space_domain(c, j) .. Max(1, space_max(n, c))

\* A variant that leaves the total of the spaces free.
SpaceSumDropped(n, c, sp) == TRUE

\* model.Add( Sum( space_variables ) == space_max )
SpaceSumHolds(n, c, sp) == Sum(sp) = space_max(n, c)

\* The values of space_variables (entry j + 1 is space_j) that their domains
\* and the sum constraint allow.
SpaceAssignments(n, c) ==
    {sp \in [1 .. Len(c) + 1 -> 0 .. Max(1, space_max(n, c))] :
        /\ \A j \in 1 .. Len(c) + 1 : sp[j] \in SpaceDomain(n, c, j - 1)
        /\ SpaceSumHolds(n, c, sp)}

\* The element variables seq_variables in creation order, each named by its
\* pair (seq_index, i): range( seq_length ) is empty for seq_length <= 0.
RECURSIVE SeqElements(_, _)
SeqElements(c, seq_index) ==
    IF seq_index > Len(c) THEN <<>>
    ELSE [i \in 1 .. Max(c[seq_index], 0) |-> <<seq_index, i - 1>>]
            \o SeqElements(c, seq_index + 1)

\* A variant that leaves out seq_cum, the cells of the sequences before.
ElValueWithoutSeqCum(sp, c, e) == Sum(Prefix(sp, e[1])) + e[2]

\* model.Add( seq_variables[ -1 ] == Sum( space_variables ) + seq_cum + i ):
\* when the element is created space_variables holds space_0 .. space_(seq_index-1)
\* and seq_cum is the sum of the sequences before it.
ElValue(sp, c, e) == Sum(Prefix(sp, e[1])) + Sum(Prefix(c, e[1] - 1)) + e[2]

\* The domain of an element variable: NewIntVar( 0, self.size ).
ElDomain(n) == 0 .. n

\* The assignments of the region's own variables (cp_region: the spaces, then
\* the elements) that the constraints on them allow.
RegionAssignments(n, c) ==
    LET els == SeqElements(c, 1)
        all == {[space |-> sp,
                 el |-> [e \in 1 .. Len(els) |-> ElValue(sp, c, els[e])]] :
                    sp \in SpaceAssignments(n, c)}
    IN  {a \in all : \A e \in 1 .. Len(a.el) : a.el[e] \in ElDomain(n)}

\* A variant that does not tie the number of filled cells to the runs.
CellSumDropped(line, c) == TRUE

\* model.Add( Sum( region_variables ) == sum( region.constraint ) )
CellSumHolds(line, c) == Sum(line) = Sum(c)

\* model.AddElement( el_var, region_variables, 1 ): the element indexes the
\* region's cells (0-based) and the cell it indexes is 1.
ElementHolds(line, el_var) ==
    el_var \in Range(Len(line)) /\ line[el_var + 1] = 1

\* for el_var in seq_variables: model.AddElement( el_var, region_variables, 1 )
ElementsHold(line, a) == \A e \in 1 .. Len(a.el) : ElementHolds(line, a.el[e])

\* A line of cell values and an assignment of the region's variables satisfy
\* every constraint of the region.
Linked(line, c, a) == CellSumHolds(line, c) /\ ElementsHold(line, a)

\* The values of n cell variables (NewBoolVar).
AllLines(n) == [1 .. n -> {0, 1}]

\* The fill patterns of a line that go with one of the assignments as of the
\* region's variables.
LinesOf(n, c, as) ==
    IF as = {} THEN {}
    ELSE {line \in AllLines(n) :
            CellSumHolds(line, c) /\ \E a \in as : ElementsHold(line, a)}

\* The fill patterns of a line that the region's constraints admit.
RegionLines(n, c) == LinesOf(n, c, RegionAssignments(n, c))

(***************************************************************************)
(* NonogramBoard.solve: the whole model and its enumeration                *)
(***************************************************************************)
\* A variant that reads every region along a row of cp_cell, the row of the
\* region's first point.
region_variables_rows_only(r, cells) == cells[r.region[1].x + 1]

\* A variant that reads a row region down the cells and a column region along.
region_variables_swapped(r, cells) ==
    IF is_row(r)
    THEN [row \in 1 .. Len(cells) |-> cells[row][r.region[1].x + 1]]
    ELSE cells[r.region[1].y + 1]

\* region_variables: cp_cell[ region_index ] for a region that is_row(), the
\* column [ var[ region_index ] for var in cp_cell ] otherwise.
region_variables(r, cells) ==
    IF is_row(r)
    THEN cells[r.region[1].x + 1]
    ELSE [row \in 1 .. Len(cells) |-> cells[row][r.region[1].y + 1]]

\* The sequences that take entry k from sets[ k ].
RECURSIVE SeqProduct(_)
SeqProduct(sets) ==
    IF Len(sets) = 0 THEN {<<>>}
    ELSE LET rest == SeqProduct(Prefix(sets, Len(sets) - 1))
         IN  {Append(t, h) : t \in rest, h \in sets[Len(sets)]}

\* The cell grids (cp_cell, one row of values per board row) that satisfy the
\* constraints of every region; as[ k ] holds the assignments of the
\* variables of region k.
SatisfyingCells(n, rs, as) ==
    LET lines == [k \in 1 .. Len(rs) |-> LinesOf(n, rs[k].constraint, as[k])]
        rowof == [k \in 1 .. Len(rs) |->
                    IF is_row(rs[k]) THEN rs[k].region[1].x ELSE 0 - 1]
        rowsets == [row \in 1 .. Max(n, 0) |->
                      {line \in AllLines(n) :
                          \A k \in 1 .. Len(rs) :
                              rowof[k] = row - 1 => line \in lines[k]}]
    IN  IF \E k \in 1 .. Len(rs) : lines[k] = {} THEN {}
        ELSE {cells \in SeqProduct(rowsets) :
                \A k \in 1 .. Len(rs) :
                    rowof[k] < 0 => region_variables(rs[k], cells) \in lines[k]}

\* solver.SearchForAllSolutions( model, solutions ): every assignment of all
\* the variables of the model that satisfies all its constraints, each found
\* once. A solution holds the cell values and, per region, the values of the
\* region's variables.
SearchForAllSolutions(n, rs) ==
    LET as == [k \in 1 .. Len(rs) |-> RegionAssignments(n, rs[k].constraint)]
    IN  UNION {
          {[cells |-> cells, regions |-> ra] :
              ra \in SeqProduct(
                  [k \in 1 .. Len(rs) |->
                      {a \in as[k] :
                          Linked(region_variables(rs[k], cells),
                                 rs[k].constraint, a)}])} :
          cells \in SatisfyingCells(n, rs, as)}

\* A variant that keeps appending to the list already stored.
solve_accumulating == solutions \o SetToSeq(SearchForAllSolutions(size, regions))

\* CpSolutionPrinter.on_solution_callback appends every solution found;
\* solve() then stores that list, replacing the previous one.
solve == SetToSeq(SearchForAllSolutions(size, regions))

(***************************************************************************)
(* NonogramBoard.print                                                     *)
(***************************************************************************)
CELL_EMPTY == "_"
CELL_FULL == "O"

\* max() of a non-empty list.
RECURSIVE MaxOf(_)
MaxOf(s) == IF Len(s) = 1 THEN s[1] ELSE Max(Head(s), MaxOf(Tail(s)))

\* abs()
Abs(n) == IF n < 0 THEN 0 - n ELSE n

\* str * n
RECURSIVE Repeat(_, _)
Repeat(str, n) == IF n <= 0 THEN "" ELSE str \o Repeat(str, n - 1)

\* "{msg:{space}}" for a str msg: padded on the right up to the width.
AlignLeft(msg, space) == msg \o Repeat(" ", space - Len(msg))

\* "{msg:>{space}}", and "{msg:{space}}" for an int msg (given as str( msg )):
\* padded on the left up to the width.
AlignRight(msg, space) == Repeat(" ", space - Len(msg)) \o msg

\* sep.join( strs )
RECURSIVE Join(_, _)
Join(sep, strs) ==
    IF strs = <<>> THEN ""
    ELSE IF Len(strs) = 1 THEN strs[1]
    ELSE strs[1] \o sep \o Join(sep, Tail(strs))

\* [ region for region in self.regions if region.is_column() ]
ColumnsOf(rs) == SelectSeq(rs, is_column)

\* [ region for region in self.regions if region.is_row() ]
RowsOf(rs) == SelectSeq(rs, is_row)

\* left_space = max( [ len( region.constraint ) for region in self.regions ] ) * 2
left_space(rs) == MaxOf([k \in 1 .. Len(rs) |-> Len(rs[k].constraint)]) * 2

\* table_space = len( str( max( [ max( region.constraint )
\*                               for region in self.regions if region.is_column() ] ) ) )
table_space(rs) ==
    LET cols == ColumnsOf(rs)
    IN  Len(ToString(MaxOf([k \in 1 .. Len(cols) |-> MaxOf(cols[k].constraint)])))

\* max_constraint = max( [ len( region.constraint )
\*                         for region in self.regions if region.is_column() ] )
max_constraint(rs) ==
    LET cols == ColumnsOf(rs)
    IN  MaxOf([k \in 1 .. Len(cols) |-> Len(cols[k].constraint)])

\* The exception print( data ) raises on regions rs: max() of an empty
\* list is a ValueError (no region at all, no column region, a column region
\* without runs), data[ row_index ] beyond the rows of data an IndexError.
print_raises(rs, data) ==
    IF rs = <<>> THEN "ValueError"
    ELSE IF ColumnsOf(rs) = <<>> THEN "ValueError"
    ELSE IF \E k \in 1 .. Len(rs) : is_column(rs[k]) /\ rs[k].constraint = <<>>
         THEN "ValueError"
    ELSE IF Len(RowsOf(rs)) > Len(data) THEN "IndexError"
    ELSE "none"

\* The text one column region adds to line "index" of the column constraints.
column_msg(c, index, mc, ts) ==
    IF Len(c) < mc
    THEN IF mc - index <= Len(c)
         THEN AlignRight(ToString(c[Abs(mc - Len(c) - index) + 1]), ts)
         ELSE AlignLeft(" ", ts)
    ELSE AlignRight(ToString(c[index + 1]), ts)

\* Line "index" of the column constraints.
column_line(rs, index) ==
    LET cols == ColumnsOf(rs)
    IN  AlignLeft("", left_space(rs)) \o " | "
        \o Join("", [k \in 1 .. Len(cols) |->
                        column_msg(cols[k].constraint, index, max_constraint(rs),
                                   table_space(rs)) \o " "])
        \o "\n"

\* The divider between the column constraints and the rows.
divider(n, rs) ==
    Repeat("-", left_space(rs) + n * (table_space(rs) + 1) + 3) \o "\n"

\* The line of one row region: its constraint, then the cells of its row.
row_line(rs, c, data_row) ==
    AlignRight(Join(" ", [j \in 1 .. Len(c) |-> ToString(c[j])]), left_space(rs))
    \o " | "
    \o Join(" ", [p \in 1 .. Len(data_row) |->
                    AlignRight(IF data_row[p] THEN CELL_FULL ELSE CELL_EMPTY,
                               table_space(rs))])
    \o "\n"

\* The lines of the text print() composes (it raises nothing): the banner if
\* no data was given, the column constraints, the divider, the rows.
print_lines(n, rs, given, data) ==
    LET rows == RowsOf(rs)
    IN  (IF given THEN <<>>
         ELSE <<" *** Nonogram " \o ToString(n) \o "x" \o ToString(n)
                    \o " board ***\n", "\n">>)
        \o [index \in 1 .. max_constraint(rs) |-> column_line(rs, index - 1)]
        \o <<divider(n, rs)>>
        \o [r \in 1 .. Len(rows) |-> row_line(rs, rows[r].constraint, data[r])]

\* print( data ) on a board of size n with regions rs and grid b: the
\* exception raised and the string returned. "given" tells data from None,
\* for which the board's own grid is printed under a banner.
print_of(n, rs, b, given, data) ==
    LET shown == IF given THEN data ELSE b
        exc == print_raises(rs, shown)
    IN  IF exc # "none" THEN [raised |-> exc, value |-> "None"]
        ELSE [raised |-> "none",
              value |-> Join("", print_lines(n, rs, given, shown))]

\* self.print( data )
print(given, data) == print_of(size, regions, board, given, data)

(***************************************************************************)
(* NonogramBoard.print_solutions                                           *)
(***************************************************************************)
\* self.solutions is None: __init__ stores [] and solve() stores the list of
\* its CpSolutionPrinter, so the attribute holds a list in every state.
solutions_is_None == FALSE

\* solution_data: row i holds Cell( bool( value ) ) for the cell variables
\* named "i-<col>", in the order of the solution.
solution_data(solution) ==
    [i \in 1 .. Len(solution.cells) |->
        [col \in 1 .. Len(solution.cells[i]) |-> solution.cells[i][col] = 1]]

\* self.print_solutions(): the exception raised and the string returned.
print_solutions ==
    IF solutions_is_None THEN [raised |-> "ValueError", value |-> "None"]
    ELSE LET part == [s \in 1 .. Len(solutions) |->
                        print(TRUE, solution_data(solutions[s]))]
             bad == {s \in 1 .. Len(solutions) : part[s].raised # "none"}
         IN  IF bad # {}
             THEN [raised |-> part[Min(bad)].raised, value |-> "None"]
             ELSE [raised |-> "none",
                   value |-> Join("", [s \in 1 .. Len(solutions) |->
                                " === Solution " \o ToString(s) \o " ===\n\n"
                                    \o part[s].value])]

(***************************************************************************)
(* The calls a client makes on a board                                     *)
(***************************************************************************)
\* Run sequences passed to constraint_of.
Constraints == SeqsUpTo(0 .. MaxRun, MaxRuns)

\* Indexes passed to constraint_of: the valid ones and one on either side.
Indexes == (0 - 1) .. size

\* nonogram = NonogramBoard( n )
Constructed(n) ==
    /\ size = n
    /\ board = InitBoard(n)
    /\ regions = InitRegions(n)
    /\ solutions = <<>>
    /\ raised = "none"
    /\ last = "init"
    /\ erred = FALSE
    /\ streak = 0
    /\ supplied = NoneSupplied(n)
    /\ ncalls = 0
    /\ returned = "None"
    /\ solved = FALSE

\* nonogram.constraint_of( direction, index, constraint )
ConstraintOf(direction, index, constraint) ==
    LET out == constraint_of(direction, index, constraint)
    IN  /\ regions' = out.regions
        /\ raised' = out.raised
        /\ last' = "constraint_of"
        /\ erred' = (erred \/ out.raised # "none")
        /\ streak' = 0
        /\ supplied' = IF out.raised = "none"
                       THEN [supplied EXCEPT ![direction][index] = constraint]
                       ELSE supplied
        /\ ncalls' = ncalls + 1
        /\ returned' = "None"
        /\ UNCHANGED <<size, board, solutions, solved>>

\* nonogram.solve()
Solve ==
    /\ solutions' = solve
    /\ raised' = "none"
    /\ last' = "solve"
    /\ streak' = streak + 1
    /\ ncalls' = ncalls + 1
    /\ returned' = "None"
    /\ solved' = TRUE
    /\ UNCHANGED <<size, board, regions, supplied, erred>>

\* nonogram.print()
CallPrint ==
    LET out == print(FALSE, board)
    IN  /\ raised' = out.raised
        /\ returned' = out.value
        /\ last' = "print"
        /\ erred' = (erred \/ out.raised # "none")
        /\ streak' = 0
        /\ ncalls' = ncalls + 1
        /\ UNCHANGED <<size, board, regions, solutions, supplied, solved>>

\* nonogram.print_solutions()
CallPrintSolutions ==
    LET out == print_solutions
    IN  /\ raised' = out.raised
        /\ returned' = out.value
        /\ last' = "print_solutions"
        /\ erred' = (erred \/ out.raised # "none")
        /\ streak' = 0
        /\ ncalls' = ncalls + 1
        /\ UNCHANGED <<size, board, regions, solutions, supplied, solved>>

Init == \E n \in 0 .. MaxSize : Constructed(n)

ClientConstraintOf ==
    \E direction \in Directions, index \in Indexes, constraint \in Constraints :
        ncalls < MaxCalls /\ ConstraintOf(direction, index, constraint)

ClientSolve == ncalls < MaxCalls /\ Solve

Next == ClientConstraintOf \/ ClientSolve

Spec == Init /\ [][Next]_vars

(***************************************************************************)
(* A client that enters a whole puzzle the way main() does: the rows in    *)
(* order, then the columns in order, then solve().                         *)
(***************************************************************************)
\* Positive run sequences.
PuzzleConstraints ==
    {c \in SeqsUpTo(1 .. MaxInk, MaxInk) : Sum(c) <= MaxInk}

\* The filled cells asked for so far in one direction.
Ink(direction) ==
    Sum([i \in 1 .. size |-> Sum(supplied[direction][i - 1])])

PuzzleInit == \E n \in 1 .. MaxPuzzleSize : Constructed(n)

PuzzleRow ==
    \E constraint \in PuzzleConstraints :
        /\ ncalls < size
        /\ Ink("row") + Sum(constraint) <= MaxInk
        /\ ConstraintOf("row", ncalls, constraint)

PuzzleColumn ==
    \E constraint \in PuzzleConstraints :
        /\ size <= ncalls /\ ncalls < 2 * size
        /\ Ink("column") + Sum(constraint) <= MaxInk
        /\ ConstraintOf("column", ncalls - size, constraint)

PuzzleSolve == ncalls = 2 * size /\ Solve

PuzzleNext == PuzzleRow \/ PuzzleColumn \/ PuzzleSolve

PuzzleSpec == PuzzleInit /\ [][PuzzleNext]_vars

(***************************************************************************)
(* A client that enters a known puzzle, its lines in any order, and then   *)
(* does what main() does with it: print(), solve(), print_solutions(). An  *)
(* exception ends the client.                                              *)
(***************************************************************************)
\* The 5x5 puzzle of main().
MainPuzzle ==
    [row |-> <<<<1>>, <<1, 2>>, <<3, 1>>, <<5>>, <<5>>>>,
     column |-> <<<<4>>, <<1, 3>>, <<4>>, <<1, 2>>, <<3>>>>]

\* A 2x2 puzzle whose rows ask for every cell and whose columns for one each.
FullRowsPuzzle ==
    [row |-> <<<<2>>, <<2>>>>, column |-> <<<<1>>, <<1>>>>]

KnownPuzzles == {MainPuzzle, FullRowsPuzzle}

\* The known puzzle of a board of size n.
KnownPuzzle(n) == CHOOSE p \in KnownPuzzles : Len(p.row) = n

\* The arguments of constraint_of once all of puzzle p has been entered.
SuppliedOf(p) ==
    [d \in Directions |-> [i \in Range(Len(p.row)) |-> p[d][i + 1]]]

MainInit == \E p \in KnownPuzzles : Constructed(Len(p.row))

MainConstraintOf ==
    \E direction \in Directions, index \in Range(size) :
        /\ last \in {"init", "constraint_of"}
        /\ supplied[direction][index] = <<>>
        /\ ConstraintOf(direction, index, KnownPuzzle(size)[direction][index + 1])

MainPrint == last \in {"init", "constraint_of"} /\ CallPrint

MainSolve ==
    /\ last \in {"init", "constraint_of", "print"}
    /\ raised = "none"
    /\ Solve

MainPrintSolutions == last = "solve" /\ CallPrintSolutions

MainNext == MainConstraintOf \/ MainPrint \/ MainSolve \/ MainPrintSolutions

MainSpec == MainInit /\ [][MainNext]_vars

(***************************************************************************)
(* A client that attaches run sequences with valid indexes, among them one *)
(* with a run of two digits as main() passes, solves and prints in any     *)
(* order.                                                                  *)
(***************************************************************************)
\* The run of two digits: nonogram.constraint_of( "row", 5, [ 10 ] )
LongRun == 10

PrintConstraints == {<<>>, <<1>>, <<LongRun>>, <<1, 1>>}

PrintInit == \E n \in 1 .. MaxPrintSize : Constructed(n)

PrintConstraintOf ==
    \E direction \in Directions, index \in Range(size),
       constraint \in PrintConstraints :
        ncalls < MaxPrintCalls /\ ConstraintOf(direction, index, constraint)

PrintSolve == ncalls < MaxPrintCalls /\ Solve

PrintPrint == ncalls < MaxPrintCalls /\ CallPrint

PrintPrintSolutions == ncalls < MaxPrintCalls /\ CallPrintSolutions

PrintNext == PrintConstraintOf \/ PrintSolve \/ PrintPrint \/ PrintPrintSolutions

PrintSpec == PrintInit /\ [][PrintNext]_vars

(***************************************************************************)
(* A client that constrains row 0 and column 0 of a board with run         *)
(* sequences that fit the line, and solves it.                             *)
(***************************************************************************)
\* The positive run sequences that fit a line of n cells with one empty cell
\* between consecutive runs.
FittingRuns(n) ==
    {c \in SeqsUpTo(1 .. n, (n + 1) \div 2) : Sum(c) + (Len(c) - 1) <= n}

LineInit == \E n \in 1 .. MaxLine : Constructed(n)

LineConstraintOf ==
    \E direction \in Directions, constraint \in FittingRuns(size) :
        /\ ncalls < MaxLineCalls
        /\ last # "solve"
        /\ ConstraintOf(direction, 0, constraint)

LineSolve == last # "solve" /\ Solve

LineNext == LineConstraintOf \/ LineSolve

LineSpec == LineInit /\ [][LineNext]_vars

(***************************************************************************)
(* Vocabulary of the properties                                            *)
(***************************************************************************)
\* The maximal runs of filled cells of a line, read in order.
RECURSIVE Runs(_)
Runs(line) ==
    IF Len(line) = 0 THEN <<>>
    ELSE LET rest == Runs(Tail(line))
         IN  IF Head(line) = 0 THEN rest
             ELSE IF Len(line) > 1 /\ line[2] = 1
                  THEN <<Head(rest) + 1>> \o Tail(rest)
                  ELSE <<1>> \o rest

\* The cells of a grid along the coordinates of a region.
RegionCells(r, cells) ==
    [p \in 1 .. Len(r.region) |-> cells[r.region[p].x + 1][r.region[p].y + 1]]

\* Every run length of every region is positive.
AllPositive ==
    \A k \in 1 .. Len(regions) :
        \A j \in 1 .. Len(regions[k].constraint) : regions[k].constraint[j] > 0

\* A full size x size grid of cell values.
IsFullGrid(cells) == cells \in [1 .. size -> [1 .. size -> {0, 1}]]

\* The grids of the stored solutions.
SolutionGrids == {solutions[s].cells : s \in 1 .. Len(solutions)}

(***************************************************************************)
(* Properties                                                              *)
(***************************************************************************)
\* C1 (soundness): right after solve() on a board of size >= 1 whose regions
\* hold positive runs, every stored solution is a full size x size grid in
\* which, along every region, the maximal runs of filled cells read in order
\* are exactly that region's constraint.
C1_Soundness ==
    (size >= 1 /\ last = "solve" /\ AllPositive) =>
        \A s \in 1 .. Len(solutions) :
            /\ IsFullGrid(solutions[s].cells)
            /\ \A k \in 1 .. Len(regions) :
                  Runs(RegionCells(regions[k], solutions[s].cells))
                      = regions[k].constraint

\* A solved puzzle with a solution, a region of two runs and a run of two cells.
C1_Witness ==
    /\ last = "solve" /\ AllPositive /\ solutions # <<>>
    /\ \E k \in 1 .. Len(regions) : Len(regions[k].constraint) >= 2
    /\ \E k \in 1 .. Len(regions) :
          \E j \in 1 .. Len(regions[k].constraint) : regions[k].constraint[j] >= 2

\* The grids of the board's size whose rows and columns have exactly the run
\* sequences last passed to constraint_of for them.
GridsOfSupplied ==
    {cells \in [1 .. size -> [1 .. size -> {0, 1}]] :
        \A i \in Range(size) :
            /\ Runs(cells[i + 1]) = supplied["row"][i]
            /\ Runs([r \in 1 .. size |-> cells[r][i + 1]]) = supplied["column"][i]}

\* C2 (completeness): right after solve() on a board of size >= 1, every grid
\* that satisfies all the run sequences passed to constraint_of (rows and
\* columns) is among the stored solutions.
C2_Completeness ==
    (size >= 1 /\ last = "solve") => GridsOfSupplied \subseteq SolutionGrids

\* C3 (no duplicate solutions): right after solve() on a board whose run
\* lengths are all positive, no two entries of the solution list have the
\* same grid, and every fill pattern a region admits goes with exactly one
\* assignment of that region's space and element variables.
C3_NoDuplicateGrids ==
    (last = "solve" /\ AllPositive) =>
        /\ \A i, j \in 1 .. Len(solutions) :
              i # j => solutions[i].cells # solutions[j].cells
        /\ \A k \in 1 .. Len(regions) :
              LET c == regions[k].constraint
                  as == RegionAssignments(size, c)
              IN  \A line \in LinesOf(size, c, as) :
                      Cardinality({a \in as : Linked(line, c, a)}) = 1

\* A solved puzzle of positive runs with several solutions.
C3_Witness == last = "solve" /\ AllPositive /\ Len(solutions) >= 2

\* C4 (idempotence): a solve() that directly follows a solve() leaves the same
\* set of solution grids, in a list of the same length.
C4_SolveIdempotent ==
    [][(last = "solve" /\ last' = "solve") =>
          (SolutionGrids' = SolutionGrids /\ Len(solutions') = Len(solutions))]_vars

\* solve() has run twice in a row on a board with a solution that fills a cell.
C4_Witness ==
    /\ streak >= 2
    /\ \E s \in 1 .. Len(solutions) :
          \E r, c \in 1 .. size : solutions[s].cells[r][c] = 1

\* C5 (index errors): constraint_of with an index outside 0 .. size - 1, for
\* either direction, raises IndexError and changes no region's constraint,
\* neither the grid nor the stored solutions; a call with a valid index, made
\* in any state and so also after such an error, succeeds and attaches the
\* constraint.
C5_BadIndexRaises ==
    /\ [](\A direction \in Directions, index \in Indexes,
             constraint \in Constraints :
             LET out == constraint_of(direction, index, constraint)
             IN  IF index \in Range(size)
                 THEN /\ out.raised = "none"
                      /\ \E k \in 1 .. Len(regions) :
                            out.regions[k].constraint = constraint
                 ELSE /\ out.raised = "IndexError"
                      /\ out.regions = regions)
    /\ [][(last' = "constraint_of" /\ raised' = "IndexError") =>
              /\ regions' = regions
              /\ board' = board
              /\ solutions' = solutions
              /\ size' = size]_vars

\* A valid constraint_of call has succeeded on a board that holds solutions
\* and on which an earlier call raised.
C5_Witness ==
    /\ erred /\ raised = "none" /\ last = "constraint_of"
    /\ solutions # <<>>
    /\ \E k \in 1 .. Len(regions) : regions[k].constraint # <<>>

\* C6 (invalid constraints are rejected): in every state every region's runs
\* are positive and fit the line with their mandatory gaps.
C6_RegionsWellFormed ==
    \A k \in 1 .. Len(regions) :
        LET c == regions[k].constraint
        IN  /\ \A j \in 1 .. Len(c) : c[j] > 0
            /\ Sum(c) + (Len(c) - 1) <= size

\* C7 (invalid size): a board exists only for a size >= 1.
C7_BoardOnlyForPositiveSize == size >= 1

\* The regions __init__ builds for line i: row i first, then column i.
RowRegion(i) == 2 * i + 1
ColumnRegion(i) == 2 * i + 2

\* C8 (last write wins on exactly the identified region): every row and
\* every column holds the run sequence last passed to constraint_of for it,
\* the empty one if none was.
C8_LastWriteWins ==
    \A i \in Range(size) :
        /\ regions[RowRegion(i)].constraint = supplied["row"][i]
        /\ regions[ColumnRegion(i)].constraint = supplied["column"][i]

\* C9 (region cover): a board of size >= 1 holds 2 * size regions of size
\* coordinates each; for every index exactly one region is classified as
\* that row and exactly one as that column, and none as both row and column.
C9_RegionCover ==
    size >= 1 =>
        /\ Len(regions) = 2 * size
        /\ \A k \in 1 .. Len(regions) :
              /\ Len(regions[k].region) = size
              /\ ~(is_row(regions[k]) /\ is_column(regions[k]))
        /\ \A i \in Range(size) :
              /\ Cardinality(Selected("row", i)) = 1
              /\ Cardinality(Selected("column", i)) = 1

\* C10 (empty run sequence): a region whose constraint is empty admits one
\* fill pattern, all cells empty, with the leading space equal to size; right
\* after solve() every stored solution has all cells of such a region empty.
C10_EmptyRunsEmptyLine ==
    \A k \in 1 .. Len(regions) :
        regions[k].constraint = <<>> =>
            /\ RegionLines(size, <<>>) = {[p \in 1 .. size |-> 0]}
            /\ RegionAssignments(size, <<>>) = {[space |-> <<size>>, el |-> <<>>]}
            /\ last = "solve" =>
                  \A s \in 1 .. Len(solutions) :
                      /\ \A p \in 1 .. size :
                            RegionCells(regions[k], solutions[s].cells)[p] = 0
                      /\ solutions[s].regions[k].space = <<size>>

\* A solved board with a solution that fills a cell, and a region without runs.
C10_Witness ==
    /\ last = "solve"
    /\ \E s \in 1 .. Len(solutions) :
          \E r, c \in 1 .. size : solutions[s].cells[r][c] = 1
    /\ \E k \in 1 .. Len(regions) : regions[k].constraint = <<>>

\* The lines of n cells whose maximal runs of filled cells are exactly c.
LinesWithRuns(n, c) == {line \in AllLines(n) : Runs(line) = c}

\* The full grids in which, along every region, the maximal runs of filled
\* cells are the region's constraint.
GridsOfRegions ==
    {cells \in SeqProduct([row \in 1 .. size |->
                    LinesWithRuns(size, regions[RowRegion(row - 1)].constraint)]) :
        \A k \in 1 .. Len(regions) :
            Runs(RegionCells(regions[k], cells)) = regions[k].constraint}

\* C11 (unsatisfiable puzzles): when no grid satisfies every region's
\* constraint, solve() raises nothing and stores the empty list, and
\* print_solutions() then raises nothing and returns the empty string; the
\* 2x2 board with rows [2],[2] and columns [1],[1] gets no solution.
C11_UnsatisfiableIsEmpty ==
    /\ (last = "solve" /\ GridsOfRegions = {}) =>
          /\ raised = "none"
          /\ solutions = <<>>
          /\ print_solutions = [raised |-> "none", value |-> ""]
    /\ (last = "print_solutions" /\ GridsOfRegions = {}) =>
          (raised = "none" /\ returned = "" /\ solutions = <<>>)
    /\ (last = "solve" /\ supplied = SuppliedOf(FullRowsPuzzle)) =>
          Len(solutions) = 0

\* The 2x2 puzzle with rows [2],[2] and columns [1],[1] has been entered and
\* solved, and print_solutions() has returned.
C11_Witness ==
    /\ last = "print_solutions" /\ solved
    /\ supplied = SuppliedOf(FullRowsPuzzle)
    /\ GridsOfRegions = {}
    /\ returned = ""

\* C12 (the 5x5 puzzle of main()): right after solve() on the 5x5 board with
\* rows [1],[1,2],[3,1],[5],[5] and columns [4],[1,3],[4],[1,2],[3] the
\* solution list holds exactly one solution.
C12_MainPuzzleOneSolution ==
    (last = "solve" /\ supplied = SuppliedOf(MainPuzzle)) => Len(solutions) = 1

\* The 5x5 puzzle of main() has been entered and solved.
C12_Witness ==
    /\ last = "solve" /\ size = 5
    /\ \A d \in Directions, i \in Range(size) :
          regions[IF d = "row" THEN RowRegion(i) ELSE ColumnRegion(i)].constraint
              = MainPuzzle[d][i + 1]
    /\ solutions # <<>>

\* C13 as stated: in every solution of that 5x5 puzzle row 0 has its one
\* filled cell at column 4 (cell "0-4" is 1, "0-0" .. "0-3" are 0).
C13_RowZeroFilledAtColumnFour ==
    (last = "solve" /\ supplied = SuppliedOf(MainPuzzle)) =>
        /\ solutions # <<>>
        /\ \A s \in 1 .. Len(solutions) : solutions[s].cells[1] = <<0, 0, 0, 0, 1>>

\* C13 as amended: in every solution of that 5x5 puzzle row 0 has exactly one
\* filled cell and that cell is at column 1 (cell "0-1" is 1, the cells
\* "0-0", "0-2", "0-3" and "0-4" are 0).
C13_RowZeroFilledAtColumnOne ==
    (last = "solve" /\ supplied = SuppliedOf(MainPuzzle)) =>
        /\ solutions # <<>>
        /\ \A s \in 1 .. Len(solutions) : solutions[s].cells[1] = <<0, 1, 0, 0, 0>>

\* The 5x5 puzzle of main() has been solved and print_solutions() has shown
\* its solution.
C13_Witness ==
    /\ last = "print_solutions" /\ raised = "none"
    /\ supplied = SuppliedOf(MainPuzzle)
    /\ Len(solutions) = 1
    /\ solutions[1].cells[1][2] = 1

\* C14 (print_solutions before solve): print_solutions() on a board on
\* which solve() has never been called raises ValueError.
C14_PrintSolutionsNeedsSolve ==
    (last = "print_solutions" /\ ~solved) => raised = "ValueError"

\* C15 (print always succeeds): print() without data on a board of size >= 1
\* on which only valid constraint_of calls were made raises nothing and
\* returns the banner line and the blank line after it, the lines of the
\* column constraints, the divider and one line per row of the grid.
C15_PrintSucceeds ==
    (last = "print" /\ size >= 1) =>
        /\ raised = "none"
        /\ Len(print_lines(size, regions, FALSE, board))
              = 2 + max_constraint(regions) + 1 + size
        /\ returned = Join("", print_lines(size, regions, FALSE, board))

\* The run lengths of all regions, rows and columns alike.
AllRuns ==
    UNION {{regions[k].constraint[j] : j \in 1 .. Len(regions[k].constraint)} :
              k \in 1 .. Len(regions)}

\* C17 (alignment width): whenever print() succeeds, the width it aligns the
\* cells and the column constraints to is the number of digits of the
\* largest run length among the constraints of all regions.
C17_WidthOfLargestRun ==
    (last = "print" /\ raised = "none") =>
        table_space(regions)
            = Len(ToString(CHOOSE m \in AllRuns : \A x \in AllRuns : x <= m))

\* C18 (stored solutions match the current puzzle): in every state, with
\* positive runs in every region, every stored solution has, along every
\* region, exactly the runs of the region's current constraint.
C18_SolutionsMatchRegions ==
    AllPositive =>
        \A s \in 1 .. Len(solutions) :
            \A k \in 1 .. Len(regions) :
                Runs(RegionCells(regions[k], solutions[s].cells))
                    = regions[k].constraint

\* The binomial coefficient C(n, k).
RECURSIVE Binomial(_, _)
Binomial(n, k) ==
    IF k = 0 THEN 1
    ELSE IF n < k THEN 0
    ELSE Binomial(n - 1, k - 1) + Binomial(n - 1, k)

\* C16 (pattern count): for every region whose k >= 0 runs are positive and
\* fit the line of size cells with their gaps, the per-region constraints of
\* solve() admit exactly C(slack + k, k) fill patterns of the line, where
\* slack = size - sum(runs) - (k - 1); each pattern has the region's runs.
C16_PatternCount ==
    \A r \in 1 .. Len(regions) :
        LET c == regions[r].constraint
            k == Len(c)
            slack == size - Sum(c) - (k - 1)
        IN  ((\A j \in 1 .. k : c[j] > 0) /\ Sum(c) + (k - 1) <= size) =>
                /\ Cardinality(RegionLines(size, c)) = Binomial(slack + k, k)
                /\ RegionLines(size, c) = LinesWithRuns(size, c)

\* solve() has run on a board with a region of two or more runs that admits
\* six or more patterns.
C16_Witness ==
    /\ last = "solve"
    /\ \E r \in 1 .. Len(regions) :
          /\ Len(regions[r].constraint) >= 2
          /\ Cardinality(RegionLines(size, regions[r].constraint)) >= 6

====
